---- MODULE Spec2Model ----
(***************************************************************************)
(* Model of the train energy optimizer of src/Ed2/optimizer.py, with the   *)
(* earlier variants of its trajectory builder and objective kept in        *)
(* src/All_steps.py/step3-2.py and step3-3.py.                             *)
(*                                                                         *)
(* Real numbers are exact rationals <<n, d>> with d > 0 in lowest terms;   *)
(* the program computes in IEEE doubles, so every comparison below is the  *)
(* comparison the program makes up to floating-point rounding.             *)
(***************************************************************************)
EXTENDS Integers, Sequences, FiniteSets, TLC

\* self and its four cache fields; heap holds the result dicts created so
\* far, in order of creation; call is the last call with what it returned;
\* threads holds, for each thread that shares self, the line it is at and its
\* local variables
VARIABLES self, optimal_result, optimal_time, optimal_speed, optimal_distance,
          heap, call, threads, vehicle, loop

vars == <<self, optimal_result, optimal_time, optimal_speed, optimal_distance,
          heap, call, threads, vehicle, loop>>

(***************************************************************************)
(* Python's None: an optional value is a set with at most one element.     *)
(***************************************************************************)
None == {}

Some(v) == {v}

The(s) == CHOOSE v \in s : TRUE

(***************************************************************************)
(* Exact rational arithmetic.                                              *)
(***************************************************************************)
Abs(n) == IF n < 0 THEN -n ELSE n

\* Each operand is bound to its value before it is used (x \in {a}), so that an
\* operand written as a nested expression is evaluated once.
RECURSIVE GCD(_, _)
GCD(a, b) == IF b = 0 THEN a ELSE CHOOSE g \in {GCD(y, x % y) : x \in {a}, y \in {b}} : TRUE

\* n / d in lowest terms, the denominator positive
R(n, d) ==
    CHOOSE r \in {<<(IF y < 0 THEN -x ELSE x) \div GCD(Abs(x), Abs(y)),
                    Abs(y) \div GCD(Abs(x), Abs(y))>> : x \in {n}, y \in {d}} : TRUE

I(n) == <<n, 1>>

RAdd(a, b) ==
    CHOOSE r \in {R(x[1] * y[2] + y[1] * x[2], x[2] * y[2]) : x \in {a}, y \in {b}} : TRUE

RSub(a, b) ==
    CHOOSE r \in {R(x[1] * y[2] - y[1] * x[2], x[2] * y[2]) : x \in {a}, y \in {b}} : TRUE

RMul(a, b) == CHOOSE r \in {R(x[1] * y[1], x[2] * y[2]) : x \in {a}, y \in {b}} : TRUE

RDiv(a, b) == CHOOSE r \in {R(x[1] * y[2], x[2] * y[1]) : x \in {a}, y \in {b}} : TRUE

RLt(a, b) == a[1] * b[2] < b[1] * a[2]

RLe(a, b) == a[1] * b[2] <= b[1] * a[2]

RGt(a, b) == RLt(b, a)

RGe(a, b) == RLe(b, a)

RAbs(a) == <<Abs(a[1]), a[2]>>

RMin(a, b) == IF RLt(b, a) THEN b ELSE a

RMax(a, b) == IF RLt(a, b) THEN b ELSE a

RECURSIVE RMaxSeq(_)
RMaxSeq(s) == IF Len(s) = 1 THEN s[1] ELSE RMax(s[1], RMaxSeq(Tail(s)))

(***************************************************************************)
(* numpy                                                                   *)
(***************************************************************************)
\* an array held by value: the elements are computed once, when it is built
np_array(f) == f \o <<>>

\* np.linspace(0, stop, num), stop an integer
np_linspace(stop, num) ==
    np_array([i \in 1..num |-> IF num = 1 THEN I(0) ELSE R((i - 1) * stop, num - 1)])

\* index of the last knot of xp that does not exceed x (xp[1] <= x)
RECURSIVE LastKnot(_, _, _)
LastKnot(x, xp, j) ==
    IF j < Len(xp) /\ RLe(xp[j + 1], x) THEN LastKnot(x, xp, j + 1) ELSE j

\* np.interp at one abscissa x
interp_at(x, xp, fp) ==
    IF RGt(x, xp[Len(xp)]) THEN fp[Len(fp)]
    ELSE IF RLt(x, xp[1]) THEN fp[1]
    ELSE LET j == LastKnot(x, xp, 1)
         IN  IF j = Len(xp) THEN fp[j]
             ELSE LET slope == RDiv(RSub(fp[j + 1], fp[j]), RSub(xp[j + 1], xp[j]))
                  IN  RAdd(RMul(slope, RSub(x, xp[j])), fp[j])

np_interp(x, xp, fp) == np_array([i \in 1..Len(x) |-> interp_at(x[i], xp, fp)])

\* np.trapz(y, x)
RECURSIVE np_trapz(_, _)
np_trapz(y, x) ==
    IF Len(y) < 2 THEN I(0)
    ELSE LET n == Len(y)
             last == RMul(RSub(x[n], x[n - 1]), RDiv(RAdd(y[n], y[n - 1]), I(2)))
         IN  RAdd(np_trapz(SubSeq(y, 1, n - 1), SubSeq(x, 1, n - 1)), last)

\* the running sum with each step taken off instead of added
RECURSIVE cumulative_distance_backward(_, _, _)
cumulative_distance_backward(time_s, speed_mps, i) ==
    IF i = 1 THEN I(0)
    ELSE LET dt == RSub(time_s[i], time_s[i - 1])
             avg_speed == RDiv(RAdd(speed_mps[i], speed_mps[i - 1]), I(2))
         IN  RSub(cumulative_distance_backward(time_s, speed_mps, i - 1),
                  RMul(avg_speed, dt))

\* the running sum "distance[i] = distance[i-1] + avg_speed * dt" that the
\* program writes out in three places
RECURSIVE cumulative_distance(_, _, _)
cumulative_distance(time_s, speed_mps, i) ==
    IF i = 1 THEN I(0)
    ELSE LET dt == RSub(time_s[i], time_s[i - 1])
             avg_speed == RDiv(RAdd(speed_mps[i], speed_mps[i - 1]), I(2))
         IN  RAdd(cumulative_distance(time_s, speed_mps, i - 1), RMul(avg_speed, dt))

\* np.searchsorted(a, v), side = 'left': binary search on [lo, hi)
RECURSIVE searchsorted_from(_, _, _, _)
searchsorted_from(a, v, lo, hi) ==
    IF lo >= hi THEN lo
    ELSE LET mid == lo + ((hi - lo) \div 2)
         IN  IF RLt(a[mid + 1], v) THEN searchsorted_from(a, v, mid + 1, hi)
             ELSE searchsorted_from(a, v, lo, mid)

np_searchsorted(a, v) == searchsorted_from(a, v, 0, Len(a))

(***************************************************************************)
(* sorted(self.speed_limits): pairs in lexicographic order                 *)
(***************************************************************************)
PairLe(p, q) == RLt(p[1], q[1]) \/ (p[1] = q[1] /\ RLe(p[2], q[2]))

RECURSIVE InsertPair(_, _)
InsertPair(p, s) ==
    IF s = <<>> THEN <<p>>
    ELSE IF PairLe(p, s[1]) THEN <<p>> \o s
    ELSE <<s[1]>> \o InsertPair(p, Tail(s))

RECURSIVE sorted(_)
sorted(s) == IF s = <<>> THEN <<>> ELSE InsertPair(s[1], sorted(Tail(s)))

(***************************************************************************)
(* TrainEnergyOptimizer (src/Ed2/optimizer.py)                             *)
(***************************************************************************)
\* __init__: control_points and speed_limits are optional arguments
TrainEnergyOptimizer(distance_m, time_s, max_speed_mps, max_accel, control_points, speed_limits) ==
    [distance_m     |-> distance_m,
     time_s         |-> time_s,
     max_speed_mps  |-> max_speed_mps,
     max_accel      |-> max_accel,
     control_points |-> IF control_points = None
                        THEN (IF distance_m \div 100 > 3 THEN distance_m \div 100 ELSE 3)
                        ELSE The(control_points),
     speed_limits   |-> IF speed_limits = None \/ The(speed_limits) = <<>>
                        THEN <<<<I(0), I(max_speed_mps)>>>>
                        ELSE The(speed_limits)]

\* the scan with a threshold applying only beyond its position
RECURSIVE speed_limit_scan_strict(_, _, _)
speed_limit_scan_strict(limits, position, current_limit) ==
    IF limits = <<>> THEN current_limit
    ELSE IF RGt(position, limits[1][1])
         THEN speed_limit_scan_strict(Tail(limits), position, limits[1][2])
         ELSE current_limit

RECURSIVE speed_limit_scan(_, _, _)
speed_limit_scan(limits, position, current_limit) ==
    IF limits = <<>> THEN current_limit
    ELSE IF RGe(position, limits[1][1])
         THEN speed_limit_scan(Tail(limits), position, limits[1][2])
         ELSE current_limit

get_speed_limit_at_position(o, position) ==
    speed_limit_scan(sorted(o.speed_limits), position, I(o.max_speed_mps))

\* the padding without its closing zero
boundary_points_open(control_points) ==
    np_array(<<I(0)>> \o [i \in 1..Len(control_points) |-> I(control_points[i])])

\* points = np.array([0, *control_points, 0])
boundary_points(control_points) ==
    np_array(<<I(0)>> \o [i \in 1..Len(control_points) |-> I(control_points[i])] \o <<I(0)>>)

\* the clipping pass of create_speed_profile (lines 73-83)
apply_speed_limits(o, time_s, speed_mps) ==
    IF Len(o.speed_limits) > 1
    THEN np_array([i \in 1..Len(speed_mps) |->
            RMin(speed_mps[i],
                 get_speed_limit_at_position(o, cumulative_distance(time_s, speed_mps, i)))])
    ELSE speed_mps

\* the distance correction left out
rescale_to_distance_off(distance_m, time_s, speed_mps) == speed_mps

\* the distance correction with the factor upside down
rescale_to_distance_inverted(distance_m, time_s, speed_mps) ==
    LET distance == np_trapz(speed_mps, time_s)
    IN  IF RGt(distance, I(0))
        THEN np_array([i \in 1..Len(speed_mps) |->
                          RMul(speed_mps[i], RDiv(distance, I(distance_m)))])
        ELSE speed_mps

\* the distance correction of create_speed_profile (lines 86-88)
rescale_to_distance(distance_m, time_s, speed_mps) ==
    LET distance == np_trapz(speed_mps, time_s)
    IN  IF RGt(distance, I(0))
        THEN np_array([i \in 1..Len(speed_mps) |->
                          RMul(speed_mps[i], RDiv(I(distance_m), distance))])
        ELSE speed_mps

\* lines 65-70: the control points, padded with the boundary zeros, interpolated
\* on the one-second grid
interpolated_profile(total_time, control_points) ==
    LET time_s == np_linspace(total_time, total_time + 1)
        points == boundary_points(control_points)
        t_points == np_linspace(total_time, Len(points))
    IN  [time_s |-> time_s, speed_mps |-> np_interp(time_s, t_points, points)]

\* lines 65-83: the curve before the distance correction
clipped_profile(o, control_points) ==
    LET p == interpolated_profile(o.time_s, control_points)
    IN  [time_s |-> p.time_s, speed_mps |-> apply_speed_limits(o, p.time_s, p.speed_mps)]

create_speed_profile(o, control_points) ==
    LET p == clipped_profile(o, control_points)
    IN  [time_s |-> p.time_s,
         speed_mps |-> rescale_to_distance(o.distance_m, p.time_s, p.speed_mps)]

\* accel = np.diff(speed_mps)/np.diff(time_s); np.max(np.abs(accel))
max_abs_accel(time_s, speed_mps) ==
    RMaxSeq(np_array([i \in 1..(Len(speed_mps) - 1) |->
                RAbs(RDiv(RSub(speed_mps[i + 1], speed_mps[i]),
                          RSub(time_s[i + 1], time_s[i])))]))

\* the speed-limit loop of simulate_energy (lines 101-113)
exceeds_speed_limit(o, time_s, speed_mps) ==
    \E i \in 1..Len(time_s) :
        RGt(speed_mps[i],
            RMul(get_speed_limit_at_position(o, cumulative_distance(time_s, speed_mps, i)),
                 R(105, 100)))

Sentinel == 1000000

\* np.max(np.abs(accel)) of line 97 on a one-sample trajectory (time_s = 0):
\* np.diff leaves an empty array and np.max of it raises ValueError
np_max_of_empty(speed_mps) == Len(speed_mps) < 2

Returned(v) == [kind |-> "return", value |-> v]

Raised == [kind |-> "raise", value |-> I(0)]

\* the objective without its speed-limit loop
simulate_energy_unchecked(o, control_points, ev) ==
    LET p == create_speed_profile(o, control_points)
    IN  IF np_max_of_empty(p.speed_mps) THEN Raised
        ELSE IF RGt(max_abs_accel(p.time_s, p.speed_mps), o.max_accel)
        THEN Returned(I(Sentinel))
        ELSE IF ev.raises THEN Raised
        ELSE LET time_penalty ==
                     RMul(RAbs(RSub(p.time_s[Len(p.time_s)], I(o.time_s))), I(10))
             IN  Returned(RAdd(I(ev.energy), time_penalty))

\* ev is what fastsim does with the cycle: it raises, or it leaves the net
\* energy ess_cur_kwh[0] - ess_cur_kwh[-1]
simulate_energy(o, control_points, ev) ==
    LET p == create_speed_profile(o, control_points)
    IN  IF np_max_of_empty(p.speed_mps) THEN Raised
        ELSE IF RGt(max_abs_accel(p.time_s, p.speed_mps), o.max_accel)
        THEN Returned(I(Sentinel))
        ELSE IF exceeds_speed_limit(o, p.time_s, p.speed_mps)
        THEN Returned(I(Sentinel))
        ELSE IF ev.raises THEN Raised
        ELSE LET time_penalty ==
                     RMul(RAbs(RSub(p.time_s[Len(p.time_s)], I(o.time_s))), I(10))
             IN  Returned(RAdd(I(ev.energy), time_penalty))

(***************************************************************************)
(* The earlier variants: src/All_steps.py/step3-3.py (class) and           *)
(* step3-2.py (module-level function), without speed limits                *)
(***************************************************************************)
create_speed_profile_step33(o, control_points) ==
    LET p == interpolated_profile(o.time_s, control_points)
    IN  [time_s |-> p.time_s,
         speed_mps |-> rescale_to_distance(o.distance_m, p.time_s, p.speed_mps)]

create_speed_profile_step32(control_points, T, D) ==
    LET p == interpolated_profile(T, control_points)
    IN  [time_s |-> p.time_s, speed_mps |-> rescale_to_distance(D, p.time_s, p.speed_mps)]

\* the whole body is inside try: ... except Exception: return 1e6
simulate_energy_step33(o, control_points, ev) ==
    LET p == create_speed_profile_step33(o, control_points)
    IN  IF np_max_of_empty(p.speed_mps) THEN Returned(I(Sentinel))
        ELSE IF RGt(max_abs_accel(p.time_s, p.speed_mps), o.max_accel)
        THEN Returned(I(Sentinel))
        ELSE IF ev.raises THEN Returned(I(Sentinel))
        ELSE LET time_penalty ==
                     RMul(RAbs(RSub(p.time_s[Len(p.time_s)], I(o.time_s))), I(100))
                 distance_error ==
                     RAbs(RSub(np_trapz(p.speed_mps, p.time_s), I(o.distance_m)))
                 speed_penalty ==
                     RMul(RMax(I(0), RSub(RMaxSeq(p.speed_mps), I(o.max_speed_mps))), I(1000))
             IN  Returned(RAdd(RAdd(RAdd(I(ev.energy), time_penalty),
                                    RMul(distance_error, I(100))), speed_penalty))

(***************************************************************************)
(* Vehicle (src/Ed2/vehicle_model.py): position in m, speed in km/h,       *)
(* acceleration in km/h/s, time in s                                       *)
(***************************************************************************)
Vehicle ==
    [position |-> I(0), speed |-> I(0), acceleration |-> I(0), time |-> I(0),
     energy_consumption |-> I(0)]

\* the speed left as the acceleration made it
clamp_speed_off(speed) == speed

\* line 16: self.speed = max(0, self.speed)
clamp_speed(speed) == RMax(I(0), speed)

\* Vehicle.update
update(v, dt, acceleration) ==
    LET speed == clamp_speed(RAdd(v.speed, RMul(acceleration, dt)))
    IN  [position |-> RAdd(v.position, RDiv(RMul(speed, dt), R(36, 10))),
         speed |-> speed,
         acceleration |-> acceleration,
         time |-> RAdd(v.time, dt),
         energy_consumption |->
             RAdd(v.energy_consumption,
                  RMul(RAdd(RMul(R(1, 100), RMul(speed, speed)),
                            RMul(R(2, 10), RMul(acceleration, acceleration))),
                       dt))]

\* no interface loop is running
NoLoop == [running |-> FALSE, reached |-> FALSE, distance_optimal |-> <<>>]

(***************************************************************************)
(* Inputs                                                                  *)
(***************************************************************************)
MaxTime == 4

MaxControlPoints == 2

Distances == {4, 10}

MaxSpeeds == {3}

MaxAccels == {R(11, 10), I(3)}

\* None, the profile of src/Ed2/interface.py scaled to the course, and one
\* that tightens along the course
SpeedLimitProfiles ==
    {None,
     Some(<<<<I(0), I(2)>>, <<I(4), I(1)>>, <<I(5), I(2)>>>>),
     Some(<<<<I(0), I(3)>>, <<I(2), I(1)>>>>)}

\* a profile whose thresholds are not ascending
UnorderedProfiles == {Some(<<<<I(2), I(1)>>, <<I(0), I(3)>>>>)}

\* a profile of one entry: one limit, below max_speed_mps, for the whole course
SingleEntryProfiles == {Some(<<<<I(0), I(2)>>>>)}

\* __init__ checks none of its arguments: a total time of 0, a control-point
\* count of 0 and an unordered profile are constructed like any other
Optimizers ==
    {TrainEnergyOptimizer(d, t, m, a, Some(n), l) :
        d \in Distances, t \in 0..MaxTime, m \in MaxSpeeds, a \in MaxAccels,
        n \in 0..MaxControlPoints,
        l \in SpeedLimitProfiles \cup UnorderedProfiles \cup SingleEntryProfiles}

\* the box the solver searches: Bounds(lb = 0, ub = max_speed_mps)
ControlVectors(o) == [1..o.control_points -> 0..o.max_speed_mps]

Energies == {1, 2}

EvalOutcomes ==
    {[raises |-> TRUE, energy |-> 0]} \cup {[raises |-> FALSE, energy |-> e] : e \in Energies}

\* positions in half metres, from before the start to beyond every threshold
Positions == {R(k, 2) : k \in -1..11}

NoCall == [op |-> "none"]

(***************************************************************************)
(* The trajectory builder and the objective as functions of their inputs   *)
(***************************************************************************)
InitFn ==
    /\ self \in Optimizers
    /\ optimal_result = None
    /\ optimal_time = None
    /\ optimal_speed = None
    /\ optimal_distance = None
    /\ heap = <<>>
    /\ call = NoCall
    /\ threads = <<>>
    /\ vehicle = Vehicle
    /\ loop = NoLoop

\* These functions read self and write nothing, so what a call returns does not
\* depend on the calls before it: each behaviour of SpecFn applies one of them
\* once, to one input.
Frame ==
    /\ call = NoCall
    /\ UNCHANGED <<self, optimal_result, optimal_time, optimal_speed, optimal_distance,
                   heap, threads, vehicle, loop>>

CreateSpeedProfile ==
    \E x \in ControlVectors(self) :
        /\ Frame
        /\ call' = [op |-> "create_speed_profile", x |-> x,
                    ret |-> create_speed_profile(self, x)]

CreateSpeedProfileStep33 ==
    \E x \in ControlVectors(self) :
        /\ Frame
        /\ call' = [op |-> "create_speed_profile_step33", x |-> x,
                    ret |-> create_speed_profile_step33(self, x)]

CreateSpeedProfileStep32 ==
    \E x \in ControlVectors(self) :
        /\ Frame
        /\ call' = [op |-> "create_speed_profile_step32", x |-> x,
                    ret |-> create_speed_profile_step32(x, self.time_s, self.distance_m)]

SimulateEnergy ==
    \E x \in ControlVectors(self), ev \in EvalOutcomes :
        /\ Frame
        /\ call' = [op |-> "simulate_energy", x |-> x, ev |-> ev,
                    ret |-> simulate_energy(self, x, ev)]

SimulateEnergyStep33 ==
    \E x \in ControlVectors(self), ev \in EvalOutcomes :
        /\ Frame
        /\ call' = [op |-> "simulate_energy_step33", x |-> x, ev |-> ev,
                    ret |-> simulate_energy_step33(self, x, ev)]

GetSpeedLimitAtPosition ==
    \E position \in Positions :
        /\ Frame
        /\ call' = [op |-> "get_speed_limit_at_position", position |-> position,
                    ret |-> get_speed_limit_at_position(self, position)]

NextFn ==
    \/ GetSpeedLimitAtPosition
    \/ CreateSpeedProfile
    \/ CreateSpeedProfileStep33
    \/ CreateSpeedProfileStep32
    \/ SimulateEnergy
    \/ SimulateEnergyStep33

SpecFn == InitFn /\ [][NextFn]_vars

(***************************************************************************)
(* optimize and get_dynamic_speed_recommendation                           *)
(***************************************************************************)
\* lines 256-275: the result built from the solver's last control vector x and
\* the final simulation ev; result.success of the solver is not read, and the
\* 'simulation' entry holds the simulation object, which the model leaves out
optimization_result(o, x, ev) ==
    LET p == create_speed_profile(o, x)
    IN  [optimal_time |-> p.time_s, optimal_speed |-> p.speed_mps,
         optimal_energy |-> ev.energy]

\* lines 155-159
distance_index(time, speed) ==
    np_array([i \in 1..Len(time) |-> cumulative_distance(time, speed, i)])

\* speeds left in m/s
KmhPerMpsMissing == I(1)

\* the factor 3.6 between m/s and km/h (lines 144, 168, 182, 208, 219)
KmhPerMps == R(36, 10)

\* the far threshold taken inclusive
far_from_destination_inclusive(distance_ratio) == RGe(distance_ratio, R(7, 10))

\* line 198
far_from_destination(distance_ratio) == RGt(distance_ratio, R(7, 10))

\* line 206
mid_course(distance_ratio) == RGt(distance_ratio, R(3, 10))

\* the index rebuilt on every query
index_rebuilt_always(index) == TRUE

\* line 151
index_missing(index) == index = None

\* the spec's reading of the estimate: remaining distance over the speed,
\* the speed kept above a floor of 0.001 m/s
remain_time_floor(o, current_speed_mps, remain_distance, current_time) ==
    IF current_time # None THEN RSub(I(o.time_s), The(current_time))
    ELSE RDiv(remain_distance, RMax(current_speed_mps, R(1, 1000)))

\* lines 171-179
remain_time(o, current_speed_mps, remain_distance, current_time) ==
    IF current_time # None THEN RSub(I(o.time_s), The(current_time))
    ELSE IF RGt(current_speed_mps, I(0))
         THEN RDiv(remain_distance, current_speed_mps)
         ELSE I(o.time_s)

\* the limit not applied
clip_to_limit_off(ideal_speed, current_speed_limit) == ideal_speed

\* line 185
clip_to_limit(ideal_speed, current_speed_limit) == RMin(ideal_speed, current_speed_limit)

\* the required speed left out of the blend
blended_target_ideal_only(ideal_speed, required_avg_speed_kmh) == ideal_speed

\* line 209
blended_target(ideal_speed, required_avg_speed_kmh) ==
    RDiv(RAdd(ideal_speed, required_avg_speed_kmh), I(2))

\* the near branch with the deadband of the other branches
near_recommendation_symmetric(required_avg_speed_kmh, current_speed) ==
    IF RGt(required_avg_speed_kmh, RAdd(current_speed, I(5))) THEN "ACC"
    ELSE IF RLt(required_avg_speed_kmh, RSub(current_speed, I(5))) THEN "DEC"
    ELSE "MAT"

\* lines 221-226
near_recommendation(required_avg_speed_kmh, current_speed) ==
    IF RGt(required_avg_speed_kmh, RAdd(current_speed, I(3))) THEN "ACC"
    ELSE IF RLt(required_avg_speed_kmh, RSub(current_speed, I(7))) THEN "DEC"
    ELSE "MAT"

\* the range test left out
past_last_sample_never(current_idx, index_speed) == FALSE

\* line 163
past_last_sample(current_idx, index_speed) == current_idx >= Len(index_speed)

\* lines 143-228, once the result and its distance index exist
recommend(o, index_speed, index_distance, current_speed, remain_distance, current_time) ==
    LET current_speed_mps == RDiv(current_speed, KmhPerMps)
        traveled_distance == RSub(I(o.distance_m), remain_distance)
        current_idx == np_searchsorted(index_distance, traveled_distance)
    IN  IF past_last_sample(current_idx, index_speed)
        THEN [recommendation |-> "DEC", target_speed |-> I(0), branch |-> "end"]
        ELSE
        LET ideal_speed_mps == index_speed[current_idx + 1]
            time_left == remain_time(o, current_speed_mps, remain_distance, current_time)
            current_speed_limit ==
                RMul(get_speed_limit_at_position(o, traveled_distance), KmhPerMps)
            ideal_speed == clip_to_limit(RMul(ideal_speed_mps, KmhPerMps), current_speed_limit)
            speed_diff == RSub(ideal_speed, current_speed)
            required_avg_speed ==
                IF RGt(time_left, I(0)) THEN RDiv(remain_distance, time_left) ELSE I(0)
            required_avg_speed_kmh == RMul(required_avg_speed, KmhPerMps)
            adjusted_target == blended_target(ideal_speed, required_avg_speed_kmh)
            distance_ratio == RDiv(remain_distance, I(o.distance_m))
        IN  IF far_from_destination(distance_ratio)
            THEN [recommendation |->
                      IF RGt(speed_diff, I(5)) THEN "ACC"
                      ELSE IF RLt(speed_diff, I(-5)) THEN "DEC" ELSE "MAT",
                  target_speed |-> ideal_speed, branch |-> "far"]
            ELSE IF mid_course(distance_ratio)
            THEN [recommendation |->
                      IF RLt(current_speed, RSub(adjusted_target, I(5))) THEN "ACC"
                      ELSE IF RGt(current_speed, RAdd(adjusted_target, I(5))) THEN "DEC"
                      ELSE "MAT",
                  target_speed |-> ideal_speed, branch |-> "mid"]
            ELSE [recommendation |-> near_recommendation(required_avg_speed_kmh, current_speed),
                  target_speed |-> ideal_speed, branch |-> "near"]

\* how lines 143-228 end: self.optimal_speed[current_idx] of line 167 raises
\* IndexError for an index past the last sample, and the division by
\* self.distance_m of line 195 raises ZeroDivisionError for a course of length 0
advisory_outcome(o, index_speed, index_distance, current_speed, remain_distance, current_time) ==
    LET current_idx ==
            np_searchsorted(index_distance, RSub(I(o.distance_m), remain_distance))
    IN  IF past_last_sample(current_idx, index_speed)
        THEN Returned(recommend(o, index_speed, index_distance, current_speed,
                                remain_distance, current_time))
        ELSE IF current_idx + 1 \notin DOMAIN index_speed THEN Raised
        ELSE IF o.distance_m = 0 THEN Raised
        ELSE Returned(recommend(o, index_speed, index_distance, current_speed,
                                remain_distance, current_time))

\* lines 236-277, the path of optimize that solves: minimize ends at some
\* vector x of the box after scoring it with simulate_energy, then the final
\* simulation runs; an exception of either escapes, nothing in optimize
\* catches it
solve(o, x, ev, final) ==
    IF simulate_energy(o, x, ev).kind = "raise" THEN Raised
    ELSE IF final.raises THEN Raised
    ELSE Returned(optimization_result(o, x, final))

Maxiters == {5, 20, 21}

CachedBudget == 20

CurrentSpeeds == {0, 6, 20}

\* remaining distance in tenths of the course: overrun, arrival, the two
\* thresholds (0.3 is near, 0.7 is mid-course), the far range, and before the
\* start
RemainTenths == {-1, 0, 3, 7, 8, 11}

\* no clock, a time before the target time and one after it
CurrentTimes == {None, Some(I(2)), Some(I(MaxTime + 1))}

CourseControlPoints == {1}

\* no profile, and the profile of src/Ed2/interface.py scaled to the course
CourseProfiles == {None, Some(<<<<I(0), I(2)>>, <<I(4), I(1)>>, <<I(5), I(2)>>>>)}

\* the optimizers of the state machine: one course, without and with a profile
Courses ==
    {o \in Optimizers :
        /\ o.distance_m = 10
        /\ o.time_s = MaxTime
        /\ o.max_accel = I(3)
        /\ o.control_points \in CourseControlPoints
        /\ \E l \in CourseProfiles :
              o.speed_limits = TrainEnergyOptimizer(10, 1, o.max_speed_mps, I(3), None, l).speed_limits}

\* the final simulation raises, or leaves one net energy
FinalOutcomes == {ev \in EvalOutcomes : ev.raises \/ ev.energy = 1}

\* what a solving call can end with, for each optimizer
SolveOutcomes ==
    [o \in Courses |->
        {solve(o, x, ev, final) :
            x \in ControlVectors(o), ev \in EvalOutcomes, final \in FinalOutcomes}]

Init ==
    /\ self \in Courses
    /\ optimal_result = None
    /\ optimal_time = None
    /\ optimal_speed = None
    /\ optimal_distance = None
    /\ heap = <<>>
    /\ call = NoCall
    /\ threads = <<>>
    /\ vehicle = Vehicle
    /\ loop = NoLoop

\* the cache threshold taken exclusive
CachedBelow(maxiter) == optimal_result # None /\ maxiter < CachedBudget

\* line 233: the cached result is returned when there is one and maxiter <= 20
Cached(maxiter) == optimal_result # None /\ maxiter <= CachedBudget

\* the new result written over the dict created last
reused_instance(h, result) ==
    IF h = <<>> THEN <<result>> ELSE [h EXCEPT ![Len(h)] = result]

\* lines 270-275: the dict display creates a new dict
new_instance(h, result) == Append(h, result)

\* the number of result dicts a behaviour creates
MaxResults == 2

\* success is the solver's result.success: FALSE when it stopped at maxiter
Optimize(maxiter) ==
    /\ UNCHANGED <<threads, vehicle, loop>>
    /\ IF Cached(maxiter)
       THEN /\ call' = [op |-> "optimize", maxiter |-> maxiter, solved |-> FALSE,
                        ret |-> Returned(The(optimal_result))]
            /\ UNCHANGED <<self, optimal_result, optimal_time, optimal_speed,
                           optimal_distance, heap>>
       ELSE \E out \in SolveOutcomes[self], success \in BOOLEAN :
               /\ Len(heap) < MaxResults
               /\ call' = [op |-> "optimize", maxiter |-> maxiter, solved |-> TRUE,
                           success |-> success, ret |-> out]
               /\ IF out.kind = "raise"
                  THEN UNCHANGED <<optimal_result, heap>>
                  ELSE /\ optimal_result' = Some(out.value)
                       /\ heap' = new_instance(heap, out.value)
               /\ UNCHANGED <<self, optimal_time, optimal_speed, optimal_distance>>

AdviseCall(current_speed, remain_distance, current_time, ret) ==
    [op |-> "get_dynamic_speed_recommendation", current_speed |-> current_speed,
     remain_distance |-> remain_distance, current_time |-> current_time, ret |-> ret]

\* lines 143-228, with result the value of self.optimal_result after lines
\* 140-141
Advise(result, current_speed, remain_distance, current_time) ==
    /\ IF index_missing(optimal_distance)
       THEN /\ optimal_time' = Some(result.optimal_time)
            /\ optimal_speed' = Some(result.optimal_speed)
            /\ optimal_distance' =
                   Some(distance_index(result.optimal_time, result.optimal_speed))
       ELSE UNCHANGED <<optimal_time, optimal_speed, optimal_distance>>
    /\ call' = AdviseCall(current_speed, remain_distance, current_time,
                          advisory_outcome(self, The(optimal_speed'),
                                           The(optimal_distance'), current_speed,
                                           remain_distance, current_time))

\* lines 140-228: what one call does to the optimizer
Recommendation(current_speed, remain_distance, current_time) ==
    IF optimal_result = None
    THEN \E out \in SolveOutcomes[self] :
            IF out.kind = "raise"
            THEN /\ call' = AdviseCall(current_speed, remain_distance, current_time, Raised)
                 /\ UNCHANGED <<self, optimal_result, optimal_time, optimal_speed,
                                optimal_distance, heap>>
            ELSE /\ optimal_result' = Some(out.value)
                 /\ heap' = new_instance(heap, out.value)
                 /\ Advise(out.value, current_speed, remain_distance, current_time)
                 /\ UNCHANGED self
    ELSE /\ Advise(The(optimal_result), current_speed, remain_distance, current_time)
         /\ UNCHANGED <<self, optimal_result, heap>>

GetDynamicSpeedRecommendation(current_speed, remain_distance, current_time) ==
    /\ UNCHANGED <<threads, vehicle, loop>>
    /\ Recommendation(current_speed, remain_distance, current_time)

Next ==
    \/ \E maxiter \in Maxiters : Optimize(maxiter)
    \/ \E current_speed \in CurrentSpeeds, k \in RemainTenths, current_time \in CurrentTimes :
          GetDynamicSpeedRecommendation(I(current_speed), R(self.distance_m * k, 10),
                                        current_time)

Spec == Init /\ [][Next]_vars

(***************************************************************************)
(* One optimizer shared by two threads.  Nothing in optimizer.py takes a   *)
(* lock, so the threads interleave between statements; each action below   *)
(* is one statement (or one run of statements that touch no shared field)  *)
(* of optimize or get_dynamic_speed_recommendation, named by its line.     *)
(***************************************************************************)
ThreadIds == {1, 2}

\* thread 1 may call optimize with these budgets; both threads query
ThreadMaxiters == {20}

ThreadQueries ==
    {[current_speed |-> I(6), remain_distance |-> I(5), current_time |-> None]}

NoQuery == [current_speed |-> I(0), remain_distance |-> I(0), current_time |-> None]

NoReturn == [kind |-> "none", value |-> I(0)]

Idle(ret) ==
    [pc |-> "idle", op |-> "none", maxiter |-> 0, query |-> NoQuery, pending |-> None,
     i |-> 0, ret |-> ret]

InitThreads ==
    /\ self \in {o \in Courses : Len(o.speed_limits) = 1}
    /\ optimal_result = None
    /\ optimal_time = None
    /\ optimal_speed = None
    /\ optimal_distance = None
    /\ heap = <<>>
    /\ call = NoCall
    /\ threads = [t \in ThreadIds |-> Idle(NoReturn)]
    /\ vehicle = Vehicle
    /\ loop = NoLoop

At(t, pc) == threads[t].pc = pc

Goto(t, pc) == threads' = [threads EXCEPT ![t].pc = pc]

Cache == <<optimal_result, optimal_time, optimal_speed, optimal_distance, heap>>

StartOptimize(t) ==
    \E maxiter \in ThreadMaxiters :
        /\ t = 1
        /\ At(t, "idle")
        /\ threads' = [threads EXCEPT ![t] =
                          [Idle(NoReturn) EXCEPT !.pc = "l233", !.op = "optimize",
                                                 !.maxiter = maxiter]]
        /\ UNCHANGED <<vehicle, loop, self, call, Cache>>

StartAdvisory(t) ==
    \E q \in ThreadQueries :
        /\ At(t, "idle")
        /\ threads' = [threads EXCEPT ![t] =
                          [Idle(NoReturn) EXCEPT !.pc = "l140", !.op = "advise",
                                                 !.query = q]]
        /\ UNCHANGED <<vehicle, loop, self, call, Cache>>

\* lines 140-141: optimize(maxiter=20) when no result is seen
Line140(t) ==
    /\ At(t, "l140")
    /\ IF optimal_result = None
       THEN threads' = [threads EXCEPT ![t].pc = "l233", ![t].maxiter = CachedBudget]
       ELSE Goto(t, "l151")
    /\ UNCHANGED <<vehicle, loop, self, call, Cache>>

\* where optimize returns to: its caller, or line 143 of the advisory
ReturnFromOptimize(t, result) ==
    IF threads[t].op = "optimize"
    THEN threads' = [threads EXCEPT ![t] = Idle(Returned(result))]
    ELSE Goto(t, "l151")

\* lines 233-234
Line233(t) ==
    /\ At(t, "l233")
    /\ IF Cached(threads[t].maxiter) THEN ReturnFromOptimize(t, The(optimal_result))
       ELSE Goto(t, "l247")
    /\ UNCHANGED <<vehicle, loop, self, call, Cache>>

\* lines 236-267: the solve and the final simulation, on local variables
Line247(t) ==
    \E out \in SolveOutcomes[self] :
        /\ At(t, "l247")
        /\ Len(heap) < MaxResults
        /\ IF out.kind = "raise"
           THEN threads' = [threads EXCEPT ![t] = Idle(Raised)]
           ELSE threads' = [threads EXCEPT ![t].pc = "l270",
                                           ![t].pending = Some(out.value)]
        /\ UNCHANGED <<vehicle, loop, self, call, Cache>>

\* lines 270-277
Line270(t) ==
    /\ At(t, "l270")
    /\ optimal_result' = threads[t].pending
    /\ heap' = new_instance(heap, The(threads[t].pending))
    /\ ReturnFromOptimize(t, The(threads[t].pending))
    /\ UNCHANGED <<vehicle, loop, self, call, optimal_time, optimal_speed, optimal_distance>>

Line151(t) ==
    /\ At(t, "l151")
    /\ IF index_missing(optimal_distance) THEN Goto(t, "l153") ELSE Goto(t, "l162")
    /\ UNCHANGED <<vehicle, loop, self, call, Cache>>

Line153(t) ==
    /\ At(t, "l153")
    /\ optimal_time' = Some(The(optimal_result).optimal_time)
    /\ Goto(t, "l154")
    /\ UNCHANGED <<vehicle, loop, self, call, optimal_result, optimal_speed, optimal_distance, heap>>

Line154(t) ==
    /\ At(t, "l154")
    /\ optimal_speed' = Some(The(optimal_result).optimal_speed)
    /\ Goto(t, "l155")
    /\ UNCHANGED <<vehicle, loop, self, call, optimal_result, optimal_time, optimal_distance, heap>>

\* lines 155-156: np.zeros_like, and the loop entered at i = 1 (the second
\* sample)
Line155(t) ==
    /\ At(t, "l155")
    /\ optimal_distance' = Some(np_array([k \in 1..Len(The(optimal_time)) |-> I(0)]))
    /\ threads' = [threads EXCEPT ![t].pc = IF Len(The(optimal_time)) > 1 THEN "l157"
                                            ELSE "l162",
                                  ![t].i = 2]
    /\ UNCHANGED <<vehicle, loop, self, call, optimal_result, optimal_time, optimal_speed, heap>>

\* lines 157-159, one pass of the loop: every operand is read through self
Line157(t) ==
    LET i == threads[t].i
        time == The(optimal_time)
        speed == The(optimal_speed)
        distance == The(optimal_distance)
        dt == RSub(time[i], time[i - 1])
        avg_speed == RDiv(RAdd(speed[i], speed[i - 1]), I(2))
    IN  /\ At(t, "l157")
        /\ optimal_distance' =
               Some([distance EXCEPT ![i] = RAdd(distance[i - 1], RMul(avg_speed, dt))])
        /\ threads' = [threads EXCEPT ![t].pc = IF i < Len(time) THEN "l157" ELSE "l162",
                                      ![t].i = i + 1]
        /\ UNCHANGED <<vehicle, loop, self, call, optimal_result, optimal_time, optimal_speed, heap>>

\* lines 162-228
Line162(t) ==
    LET q == threads[t].query
    IN  /\ At(t, "l162")
        /\ threads' = [threads EXCEPT ![t] =
                          Idle(advisory_outcome(self, The(optimal_speed),
                                                The(optimal_distance), q.current_speed,
                                                q.remain_distance, q.current_time))]
        /\ UNCHANGED <<vehicle, loop, self, call, Cache>>

NextThreads ==
    \E t \in ThreadIds :
        \/ StartOptimize(t)
        \/ StartAdvisory(t)
        \/ Line140(t)
        \/ Line233(t)
        \/ Line247(t)
        \/ Line270(t)
        \/ Line151(t)
        \/ Line153(t)
        \/ Line154(t)
        \/ Line155(t)
        \/ Line157(t)
        \/ Line162(t)

SpecThreads == InitThreads /\ [][NextThreads]_vars

(***************************************************************************)
(* Vehicle.update on its own (src/Ed2/vehicle_model.py)                    *)
(***************************************************************************)
\* the clock stops the exploration, not the vehicle
MaxClock == 3

\* time steps: none, and steps around the interface's 0.75 s
Dts == {I(0), R(1, 2), R(3, 4)}

Accelerations == {I(-2), I(0), I(2)}

VehicleUpdate(dt, acceleration) ==
    /\ RLt(vehicle.time, I(MaxClock))
    /\ vehicle' = update(vehicle, dt, acceleration)
    /\ UNCHANGED <<self, optimal_result, optimal_time, optimal_speed, optimal_distance,
                   heap, call, threads, loop>>

NextVehicle == \E dt \in Dts, acceleration \in Accelerations : VehicleUpdate(dt, acceleration)

SpecVehicle == Init /\ [][NextVehicle]_vars

(***************************************************************************)
(* The main loop of src/Ed2/interface.py                                   *)
(***************************************************************************)
RECURSIVE np_cumsum_to(_, _)
np_cumsum_to(a, i) == IF i = 0 THEN I(0) ELSE RAdd(np_cumsum_to(a, i - 1), a[i])

np_cumsum(a) == np_array([i \in 1..Len(a) |-> np_cumsum_to(a, i)])

\* a[-1]
last_sample(a) == a[Len(a)]

\* line 36
distance_optimal(results) ==
    LET total == np_cumsum(results.optimal_speed)
    IN  np_array([i \in 1..Len(total) |-> RDiv(total[i], R(36, 10))])

\* the keys held during one iteration, and what line 166 makes of them
Keys == {"UP", "DOWN", "NONE"}

key_acceleration(key) ==
    IF key = "UP" THEN I(2) ELSE IF key = "DOWN" THEN I(-2) ELSE I(0)

\* lines 16-36 have run: the optimizer is built, optimize(maxiter=20) has
\* returned results and distance_optimal is computed from them.  Line 41
\* divides by distance_optimal[-1]; the loop is modelled for the results
\* whose trajectory moves.
InitInterface ==
    /\ self \in Courses
    /\ \E out \in SolveOutcomes[self] :
          /\ out.kind = "return"
          /\ RGt(last_sample(distance_optimal(out.value)), I(0))
          /\ optimal_result = Some(out.value)
          /\ heap = <<out.value>>
          /\ loop = [running |-> TRUE, reached |-> FALSE,
                     distance_optimal |-> distance_optimal(out.value)]
    /\ optimal_time = None
    /\ optimal_speed = None
    /\ optimal_distance = None
    /\ call = NoCall
    /\ threads = <<>>
    /\ vehicle = Vehicle

\* one iteration of lines 158-179: the events, the keys, vehicle.update, the
\* destination test, then draw_dashboard with its advisory query (lines 74-81)
LoopIteration(quit, key) ==
    LET dt == R(75, 100)
        destination == last_sample(loop.distance_optimal)
    IN  /\ loop.running
        /\ RLt(vehicle.time, I(MaxClock))
        /\ IF call.op = "none" THEN TRUE ELSE call.ret.kind = "return"
        /\ vehicle' = update(vehicle, dt, key_acceleration(key))
        /\ loop' = [loop EXCEPT !.running = ~quit /\ ~RGe(vehicle'.position, destination),
                                !.reached = RGe(vehicle'.position, destination)]
        /\ Recommendation(vehicle'.speed, RSub(destination, vehicle'.position),
                          Some(vehicle'.time))
        /\ UNCHANGED threads

NextInterface == \E quit \in BOOLEAN, key \in Keys : LoopIteration(quit, key)

SpecInterface == InitInterface /\ [][NextInterface]_vars

(***************************************************************************)
(* The closed loop: a driver who does what the advisory says               *)
(***************************************************************************)
\* the interface's accelerations (line 166), chosen by the advisory
advised_acceleration(recommendation) ==
    IF recommendation = "ACC" THEN I(2)
    ELSE IF recommendation = "DEC" THEN I(-2)
    ELSE I(0)

DriveDts == {R(1, 2), R(3, 4), I(1)}

\* the drive is followed past the target time time_s
MaxDriveTime == 6

\* the advisory is asked with the vehicle's speed, the distance left to
\* distance_m and the vehicle's clock; the vehicle then moves for dt with the
\* advised acceleration.  An exception of the advisory ends the drive.
DriveStep(dt) ==
    /\ RLt(vehicle.position, I(self.distance_m))
    /\ RLt(vehicle.time, I(MaxDriveTime))
    /\ IF call.op = "none" THEN TRUE ELSE call.ret.kind = "return"
    /\ Recommendation(vehicle.speed, RSub(I(self.distance_m), vehicle.position),
                      Some(vehicle.time))
    /\ vehicle' = IF call'.ret.kind = "return"
                  THEN update(vehicle, dt,
                              advised_acceleration(call'.ret.value.recommendation))
                  ELSE vehicle
    /\ UNCHANGED <<threads, loop>>

NextDrive == \E dt \in DriveDts : DriveStep(dt)

\* the drive starts as the interface does, after optimize(maxiter=20) has
\* returned, with the vehicle at rest at position 0
InitDrive ==
    /\ self \in Courses
    /\ \E out \in SolveOutcomes[self] :
          /\ out.kind = "return"
          /\ optimal_result = Some(out.value)
          /\ heap = <<out.value>>
    /\ optimal_time = None
    /\ optimal_speed = None
    /\ optimal_distance = None
    /\ call = NoCall
    /\ threads = <<>>
    /\ vehicle = Vehicle
    /\ loop = NoLoop

\* the driver keeps driving
SpecDrive == InitDrive /\ [][NextDrive]_vars /\ WF_vars(NextDrive)

(***************************************************************************)
(* Properties of the trajectory builder and the objective                  *)
(***************************************************************************)
ProfileOps ==
    {"create_speed_profile", "create_speed_profile_step33", "create_speed_profile_step32"}

ObjectiveOps == {"simulate_energy", "simulate_energy_step33"}

\* the curve a profile call rescales: clipped in Ed2, only interpolated before
PreScale ==
    IF call.op = "create_speed_profile" THEN clipped_profile(self, call.x)
    ELSE interpolated_profile(self.time_s, call.x)

MultiLimit == Len(self.speed_limits) > 1

\* C3: the first and the last speed sample of every trajectory that
\* create_speed_profile returns are exactly 0, with or without speed limits.
C3_BoundaryZero ==
    call.op \in ProfileOps =>
        /\ call.ret.speed_mps[1] = I(0)
        /\ call.ret.speed_mps[Len(call.ret.speed_mps)] = I(0)

C3_Witness ==
    /\ call.op = "create_speed_profile"
    /\ MultiLimit
    /\ \A i \in 1..Len(call.x) : call.x[i] > 0
    /\ \E i \in 1..Len(call.ret.speed_mps) : RGt(call.ret.speed_mps[i], I(0))
    /\ call.ret.speed_mps[Len(call.ret.speed_mps)] = I(0)

WithinTolerance(p) ==
    RLe(RAbs(RSub(np_trapz(p.speed_mps, p.time_s), I(self.distance_m))),
        RMul(I(self.distance_m), R(1, 1000)))

\* C4 as stated: for every control vector in the box, the all-zero one
\* included, the trapezoidal integral of the returned trajectory is within
\* 0.1% of the target distance.
C4_DistanceAlways == call.op \in ProfileOps => WithinTolerance(call.ret)

\* C4 amended: the integral is within 0.1% of the target distance whenever the
\* curve that is rescaled covers a positive distance, and is 0 otherwise.
C4_DistanceWhenPositive ==
    call.op \in ProfileOps =>
        IF RGt(np_trapz(PreScale.speed_mps, PreScale.time_s), I(0))
        THEN WithinTolerance(call.ret)
        ELSE np_trapz(call.ret.speed_mps, call.ret.time_s) = I(0)

C4_Witness ==
    /\ call.op = "create_speed_profile"
    /\ MultiLimit
    /\ RGt(np_trapz(PreScale.speed_mps, PreScale.time_s), I(0))
    /\ np_trapz(PreScale.speed_mps, PreScale.time_s) # I(self.distance_m)
    /\ np_trapz(call.ret.speed_mps, call.ret.time_s) = I(self.distance_m)

\* C5: with a speed-limit profile, no sample of a returned trajectory is
\* faster than 1.05 times the limit at that sample's cumulative distance.
C5_WithinSpeedLimit ==
    (call.op = "create_speed_profile" /\ MultiLimit) =>
        ~exceeds_speed_limit(self, call.ret.time_s, call.ret.speed_mps)

AccelExceeded(p) ==
    /\ ~np_max_of_empty(p.speed_mps)
    /\ RGt(max_abs_accel(p.time_s, p.speed_mps), self.max_accel)

C7_EvaluatorFailureCaught ==
    (call.op \in ObjectiveOps /\ call.ev.raises) => call.ret = Returned(I(Sentinel))

\* the position thresholds of a profile in ascending order
Ascending(limits) ==
    \A i \in 1..(Len(limits) - 1) : RLt(limits[i][1], limits[i + 1][1])

\* C12: no optimizer instance holds an invalid configuration, that is a
\* control-point count of 0 or a speed-limit profile whose position
\* thresholds are not ascending; construction rejects them.
C12_InvalidConfigurationRejected ==
    /\ self.control_points >= 1
    /\ Ascending(self.speed_limits)

\* C14: every sample of a trajectory create_speed_profile returns has a speed
\* in [0, max_speed_mps], for every control vector in the box.
C14_SpeedWithinMax ==
    call.op = "create_speed_profile" =>
        \A i \in 1..Len(call.ret.speed_mps) :
            /\ RGe(call.ret.speed_mps[i], I(0))
            /\ RLe(call.ret.speed_mps[i], I(self.max_speed_mps))

\* the index the advisory builds from the trajectory a profile call returned
IndexOfReturned == distance_index(call.ret.time_s, call.ret.speed_mps)

\* C15: the cumulative-distance array built from any trajectory that
\* create_speed_profile produces starts at 0, has one entry per sample and
\* never decreases.
C15_IndexNonDecreasing ==
    call.op \in ProfileOps =>
        /\ IndexOfReturned[1] = I(0)
        /\ Len(IndexOfReturned) = Len(call.ret.speed_mps)
        /\ \A i \in 1..(Len(IndexOfReturned) - 1) :
              RLe(IndexOfReturned[i], IndexOfReturned[i + 1])

\* a clipped and rescaled trajectory whose index rises, stays level over a
\* stretch of zero speed and ends at the target distance
C15_Witness ==
    /\ call.op = "create_speed_profile"
    /\ MultiLimit
    /\ IndexOfReturned[Len(IndexOfReturned)] = I(self.distance_m)
    /\ \E i \in 1..(Len(IndexOfReturned) - 1) : IndexOfReturned[i] = IndexOfReturned[i + 1]
    /\ \E i \in 1..(Len(IndexOfReturned) - 1) :
          RLt(IndexOfReturned[i], IndexOfReturned[i + 1])

\* the thresholds of the profile that do not exceed the queried position
Reached == {i \in 1..Len(self.speed_limits) : RLe(self.speed_limits[i][1], call.position)}

\* C16: get_speed_limit_at_position(p) is the limit of the threshold with the
\* greatest position not exceeding p, and max_speed_mps when every threshold
\* lies beyond p, for every position and every profile, ordered or not.
C16_LastThresholdNotExceeding ==
    call.op = "get_speed_limit_at_position" =>
        IF Reached = {} THEN call.ret = I(self.max_speed_mps)
        ELSE \E i \in Reached :
                /\ call.ret = self.speed_limits[i][2]
                /\ \A j \in Reached : RLe(self.speed_limits[j][1], self.speed_limits[i][1])

\* a query exactly on a threshold of a profile given out of order
C16_Witness ==
    /\ call.op = "get_speed_limit_at_position"
    /\ ~Ascending(self.speed_limits)
    /\ call.position = I(2)
    /\ call.ret = I(1)

\* C18: with a total time of 0, create_speed_profile returns a trivial
\* trajectory and simulate_energy returns a cost; neither raises.
C18_ZeroTimeShortCircuits ==
    self.time_s = 0 =>
        /\ call.op = "create_speed_profile" => call.ret.speed_mps = <<I(0)>>
        /\ call.op = "simulate_energy" => call.ret.kind = "return"

(***************************************************************************)
(* Properties of optimize and get_dynamic_speed_recommendation             *)
(***************************************************************************)
Advised == call.op = "get_dynamic_speed_recommendation" /\ call.ret.kind = "return"

Fields == <<optimal_result, optimal_time, optimal_speed, optimal_distance>>

\* C1 as stated, for the call that follows the solve: after optimize(m1) has
\* produced a result, optimize(m2) with m2 <= m1 returns that result without
\* a solve.
C1_SmallerBudgetCached ==
    [][(/\ call.op = "optimize" /\ call.solved /\ call.ret.kind = "return"
        /\ call'.op = "optimize" /\ call'.maxiter <= call.maxiter)
       => (~call'.solved /\ call'.ret = call.ret)]_vars

\* C1 amended: once a result is cached, optimize(maxiter) with maxiter <= 20
\* returns it without a solve and leaves the cache as it is, whatever budget
\* produced it; optimize solves only when nothing is cached or maxiter > 20.
C1_CachedUpTo20 ==
    [][call'.op = "optimize" =>
          /\ (optimal_result # None /\ call'.maxiter <= 20) =>
                (/\ ~call'.solved
                 /\ call'.ret = Returned(The(optimal_result))
                 /\ optimal_result' = optimal_result)
          /\ call'.solved => (optimal_result = None \/ call'.maxiter > 20)]_vars

C1_Witness ==
    /\ call.op = "optimize"
    /\ call.maxiter = 20
    /\ ~call.solved
    /\ call.ret = Returned(The(optimal_result))
    /\ optimal_distance # None

\* C2 as stated: a call of get_dynamic_speed_recommendation leaves
\* optimal_result, optimal_time, optimal_speed and optimal_distance unchanged
\* in every optimizer state.
C2_NoSideEffect ==
    [][call'.op = "get_dynamic_speed_recommendation" => UNCHANGED Fields]_vars

\* C2 amended: the call leaves the four fields unchanged when the distance
\* index is already built; otherwise it fills what is unset (optimal_result by
\* a solve when it is None, then the three index fields) and never replaces a
\* result that exists.
C2_NoSideEffectOnceIndexed ==
    [][call'.op = "get_dynamic_speed_recommendation" =>
          /\ optimal_distance # None => UNCHANGED Fields
          /\ optimal_result # None => optimal_result' = optimal_result
          /\ (optimal_distance = None /\ call'.ret.kind = "return") =>
                (/\ optimal_distance' # None
                 /\ optimal_time' = Some(The(optimal_result').optimal_time)
                 /\ optimal_speed' = Some(The(optimal_result').optimal_speed))]_vars

\* an advisory answered from an index that an earlier advisory built and a
\* later optimize(maxiter > 20) did not touch
C2_Witness ==
    /\ Advised
    /\ optimal_distance # None
    /\ optimal_speed # Some(The(optimal_result).optimal_speed)

Ratio == RDiv(call.remain_distance, I(self.distance_m))

\* C8: for an in-range query the branch is far iff distance_ratio > 0.7,
\* mid-course iff 0.3 < distance_ratio <= 0.7 and near iff distance_ratio <=
\* 0.3, whatever the speed and the time are.
C8_BranchByRatio ==
    (Advised /\ call.ret.value.branch # "end") =>
        /\ call.ret.value.branch = "far" <=> Ratio[1] * 10 > 7 * Ratio[2]
        /\ call.ret.value.branch = "mid" <=>
              (Ratio[1] * 10 > 3 * Ratio[2] /\ Ratio[1] * 10 <= 7 * Ratio[2])
        /\ call.ret.value.branch = "near" <=> Ratio[1] * 10 <= 3 * Ratio[2]

C8_Witness ==
    /\ Advised
    /\ Ratio = R(7, 10)
    /\ call.ret.value.branch = "mid"
    /\ call.current_time # None
    /\ call.current_speed = I(20)

\* the sample the advisory reads: the first one whose cumulative distance is
\* not below the traveled distance
Traveled == RSub(I(self.distance_m), call.remain_distance)

TrajectorySpeedKmh ==
    RMul(The(optimal_speed)[np_searchsorted(The(optimal_distance), Traveled) + 1], R(18, 5))

LimitKmh == RMul(get_speed_limit_at_position(self, Traveled), R(18, 5))

Deadband5(ideal, rec) ==
    /\ rec = "ACC" <=> RGt(RSub(ideal, call.current_speed), I(5))
    /\ rec = "DEC" <=> RLt(RSub(ideal, call.current_speed), I(-5))
    /\ rec = "MAT" <=> (/\ RLe(RSub(ideal, call.current_speed), I(5))
                        /\ RGe(RSub(ideal, call.current_speed), I(-5)))

\* C9 as stated: in the far branch, with ideal_speed the trajectory speed at
\* the current position in km/h, ACC iff ideal_speed - current_speed > 5, DEC
\* iff it is < -5, MAT otherwise.
C9_FarDeadbandOnTrajectorySpeed ==
    (Advised /\ call.ret.value.branch = "far") =>
        Deadband5(TrajectorySpeedKmh, call.ret.value.recommendation)

\* C9 amended: the same with ideal_speed the smaller of the trajectory speed
\* at the located sample and the speed limit at the current position, both
\* in km/h.
C9_FarDeadbandOnClippedSpeed ==
    (Advised /\ call.ret.value.branch = "far") =>
        Deadband5(RMin(TrajectorySpeedKmh, LimitKmh), call.ret.value.recommendation)

C9_Witness ==
    /\ Advised
    /\ call.ret.value.branch = "far"
    /\ RGt(TrajectorySpeedKmh, LimitKmh)
    /\ RGt(RSub(TrajectorySpeedKmh, call.current_speed), I(5))
    /\ call.ret.value.recommendation = "MAT"

\* C10: a query at or beyond the final cumulative distance of the trajectory
\* is reported out of range and answered DEC with target speed 0.
C10_EndOfTrajectory ==
    (Advised /\ RGe(Traveled, The(optimal_distance)[Len(The(optimal_distance))])) =>
        /\ call.ret.value.branch = "end"
        /\ call.ret.value.recommendation = "DEC"
        /\ call.ret.value.target_speed = I(0)

RecommendationCodes == {"ACC", "MAT", "DEC"}

\* C11: an advisory query on an optimizer that holds a result raises nothing
\* and returns ACC, MAT or DEC with a numeric target speed, for every speed,
\* every remaining distance (overrun, arrival, on course, before the start)
\* and every clock (absent, before or after the target time).
C11_AdvisoryNeverFails ==
    [][(optimal_result # None /\ call'.op = "get_dynamic_speed_recommendation") =>
          /\ call'.ret.kind = "return"
          /\ call'.ret.value.recommendation \in RecommendationCodes
          /\ call'.ret.value.target_speed \in Int \X (Nat \ {0})]_vars

\* an overrun reported after the target time
C11_Witness ==
    /\ Advised
    /\ RLt(call.remain_distance, I(0))
    /\ call.current_time = Some(I(MaxTime + 1))
    /\ call.ret.value.branch = "end"
    /\ call.ret.value.recommendation = "DEC"

\* the convergence flag of a result, when it carries one
convergence_flag(result) ==
    IF "success" \in DOMAIN result THEN Some(result.success) ELSE None

\* C13: the result optimize returns after a solve carries a convergence flag
\* that is true iff the solver reported convergence.
C13_ConvergenceFlagReturned ==
    (call.op = "optimize" /\ call.solved /\ call.ret.kind = "return") =>
        convergence_flag(call.ret.value) = Some(call.success)

\* C20: a distance index that is set belongs to the current result:
\* optimal_time and optimal_speed are the result's trajectory and
\* optimal_distance is its cumulative distance.
C20_IndexOfCurrentResult ==
    optimal_distance # None =>
        /\ optimal_time = Some(The(optimal_result).optimal_time)
        /\ optimal_speed = Some(The(optimal_result).optimal_speed)
        /\ optimal_distance =
               Some(distance_index(The(optimal_result).optimal_time,
                                   The(optimal_result).optimal_speed))

\* C17: a result dict is never changed once created: a solving optimize adds
\* a new dict, binds optimal_result to it and leaves every earlier dict as it
\* was, and an advisory query changes no dict that exists.
C17_ReturnedResultsNeverMutated ==
    [][/\ Len(heap') >= Len(heap)
       /\ \A i \in 1..Len(heap) : heap'[i] = heap[i]
       /\ (call'.op = "optimize" /\ call'.solved /\ call'.ret.kind = "return") =>
             (/\ Len(heap') = Len(heap) + 1
              /\ optimal_result' = Some(heap'[Len(heap')])
              /\ call'.ret.value = heap'[Len(heap')])
       /\ (call'.op = "get_dynamic_speed_recommendation" /\ optimal_result # None) =>
             heap' = heap]_vars

\* an advisory answered after a recomputing optimize replaced a result that
\* an earlier call returned, the earlier dict still as it was returned
C17_Witness ==
    /\ Advised
    /\ Len(heap) = 2
    /\ heap[1] # heap[2]
    /\ optimal_result = Some(heap[2])
    /\ optimal_speed = Some(heap[1].optimal_speed)

\* C19: whenever a thread reaches the lookup of line 162, the distance
\* index it reads is complete: optimal_distance is the cumulative distance of
\* optimal_time and optimal_speed, whatever the other thread is doing.
C19_ReaderSeesCompleteIndex ==
    \A t \in ThreadIds :
        threads[t].pc = "l162" =>
            optimal_distance =
                Some(distance_index(The(optimal_time), The(optimal_speed)))

(***************************************************************************)
(* The quantities of an answered query, from its inputs and the index      *)
(***************************************************************************)
OnTrajectory == Advised /\ call.ret.value.branch # "end"

\* ideal_speed: the trajectory speed at the located sample, not above the
\* limit at the current position, in km/h
IdealKmh == RMin(TrajectorySpeedKmh, LimitKmh)

\* the remaining time: to the target time when the clock is given, else the
\* remaining distance at the current speed, else (at standstill) the target
\* time itself
TimeLeft ==
    IF call.current_time # None THEN RSub(I(self.time_s), The(call.current_time))
    ELSE IF RGt(call.current_speed, I(0))
         THEN RDiv(RMul(call.remain_distance, R(18, 5)), call.current_speed)
         ELSE I(self.time_s)

\* required_avg_speed in km/h
RequiredKmh ==
    IF RGt(TimeLeft, I(0))
    THEN RMul(RDiv(call.remain_distance, TimeLeft), R(18, 5))
    ELSE I(0)

BlendedKmh == RDiv(RAdd(IdealKmh, RequiredKmh), I(2))

Recommended == call.ret.value.recommendation

\* C21: in the mid-course branch the target is the average of ideal_speed and
\* required_avg_speed, both in km/h; ACC iff current_speed < target - 5, DEC
\* iff current_speed > target + 5, MAT otherwise.
C21_MidBlendDeadband ==
    (OnTrajectory /\ call.ret.value.branch = "mid") =>
        /\ Recommended = "ACC" <=> RLt(call.current_speed, RSub(BlendedKmh, I(5)))
        /\ Recommended = "DEC" <=> RGt(call.current_speed, RAdd(BlendedKmh, I(5)))
        /\ Recommended = "MAT" <=>
              (/\ RGe(call.current_speed, RSub(BlendedKmh, I(5)))
               /\ RLe(call.current_speed, RAdd(BlendedKmh, I(5))))

\* a mid-course ACC that ideal_speed alone would not give
C21_Witness ==
    /\ OnTrajectory
    /\ call.ret.value.branch = "mid"
    /\ Recommended = "ACC"
    /\ RGe(call.current_speed, RSub(IdealKmh, I(5)))
    /\ RGt(RequiredKmh, IdealKmh)

\* C22: in the near branch ACC iff required_avg_speed > current_speed + 3,
\* DEC iff required_avg_speed < current_speed - 7, MAT otherwise, whatever
\* ideal_speed is.
C22_NearAsymmetricDeadband ==
    (OnTrajectory /\ call.ret.value.branch = "near") =>
        /\ Recommended = "ACC" <=> RGt(RequiredKmh, RAdd(call.current_speed, I(3)))
        /\ Recommended = "DEC" <=> RLt(RequiredKmh, RSub(call.current_speed, I(7)))
        /\ Recommended = "MAT" <=>
              (/\ RLe(RequiredKmh, RAdd(call.current_speed, I(3)))
               /\ RGe(RequiredKmh, RSub(call.current_speed, I(7))))

\* a required speed between 5 and 7 km/h below the current speed: MAT
C22_Witness ==
    /\ OnTrajectory
    /\ call.ret.value.branch = "near"
    /\ Recommended = "MAT"
    /\ RLt(RequiredKmh, RSub(call.current_speed, I(5)))

\* the remaining time of the answered query, as lines 171-179 compute it
RemainTimeOfCall ==
    remain_time(self, RDiv(call.current_speed, R(18, 5)), call.remain_distance,
                call.current_time)

Epsilons == {R(1, 10), R(1, 100), R(1, 1000)}

\* C23 as stated: remain_time is target time - elapsed time when the clock is
\* given, and otherwise remaining distance / max(current_speed, eps) for a
\* small eps > 0, at every current_speed >= 0.
C23_RemainTimeWithFloor ==
    OnTrajectory =>
        \E eps \in Epsilons :
            RemainTimeOfCall =
                IF call.current_time # None
                THEN RSub(I(self.time_s), The(call.current_time))
                ELSE RDiv(call.remain_distance,
                          RMax(RDiv(call.current_speed, R(18, 5)), eps))

\* C23 amended: remain_time is target time - elapsed time when the clock is
\* given; without a clock it is remaining distance / current speed (in m/s)
\* when current_speed > 0, and the target time time_s when current_speed = 0.
C23_RemainTimeDefaultAtStandstill == OnTrajectory => RemainTimeOfCall = TimeLeft

C23_Witness ==
    /\ OnTrajectory
    /\ call.current_time = None
    /\ call.current_speed = I(0)
    /\ RGt(call.remain_distance, I(0))
    /\ RemainTimeOfCall = I(self.time_s)
    /\ RequiredKmh = RMul(RDiv(call.remain_distance, I(self.time_s)), R(18, 5))

\* C24: the target speed returned is the target of the branch taken:
\* ideal_speed in the far branch, the blended average in the mid-course
\* branch, required_avg_speed in the near branch.
C24_TargetOfBranchTaken ==
    OnTrajectory =>
        /\ call.ret.value.branch = "far" => call.ret.value.target_speed = IdealKmh
        /\ call.ret.value.branch = "mid" => call.ret.value.target_speed = BlendedKmh
        /\ call.ret.value.branch = "near" => call.ret.value.target_speed = RequiredKmh

\* C25: the target speed returned never exceeds the speed limit at the
\* current position, in km/h.
C25_TargetWithinLimit ==
    Advised => RLe(call.ret.value.target_speed, LimitKmh)

\* a trajectory that runs above the limit at the queried position
C25_Witness ==
    /\ OnTrajectory
    /\ Len(self.speed_limits) > 1
    /\ RGt(TrajectorySpeedKmh, LimitKmh)
    /\ call.ret.value.target_speed = LimitKmh

\* a profile was passed to __init__ (line 29 replaces a missing one by one
\* entry at max_speed_mps)
ProfileSupplied == self.speed_limits # <<<<I(0), I(self.max_speed_mps)>>>>

\* every sample of the interpolated curve clipped to the limit at its
\* cumulative position, whatever the length of the profile
ClippedEverySample ==
    LET p == interpolated_profile(self.time_s, call.x)
    IN  np_array([i \in 1..Len(p.speed_mps) |->
            RMin(p.speed_mps[i],
                 get_speed_limit_at_position(self,
                     cumulative_distance(p.time_s, p.speed_mps, i)))])

\* C26: whenever a speed-limit profile is supplied, a profile of one entry
\* included, create_speed_profile clips every sample to the limit at the
\* sample's cumulative position before the distance correction.
C26_ClippedWheneverSupplied ==
    (call.op = "create_speed_profile" /\ ProfileSupplied) =>
        call.ret.speed_mps =
            rescale_to_distance(self.distance_m, call.ret.time_s, ClippedEverySample)

\* the control vector of the call multiplied by k
Scaled(k) == [i \in 1..Len(call.x) |-> k * call.x[i]]

Factors == {2, 3}

\* the same builder as the call's, applied to another control vector
SameBuilder(x) ==
    IF call.op = "create_speed_profile" THEN create_speed_profile(self, x)
    ELSE IF call.op = "create_speed_profile_step33" THEN create_speed_profile_step33(self, x)
    ELSE create_speed_profile_step32(x, self.time_s, self.distance_m)

ScaleFree ==
    /\ call.op \in ProfileOps
    /\ call.op = "create_speed_profile" => ~MultiLimit
    /\ RGt(np_trapz(PreScale.speed_mps, PreScale.time_s), I(0))

\* C28: without a multi-entry speed-limit profile, the trajectory built from
\* k times a control vector whose interpolated curve covers a positive
\* distance is the trajectory built from the control vector itself.
C28_ScaleInvariant ==
    ScaleFree => \A k \in Factors : SameBuilder(Scaled(k)) = call.ret

\* the scaled vector lies outside the solver's box and still gives the same
\* trajectory, which covers the target distance
C28_Witness ==
    /\ ScaleFree
    /\ call.op = "create_speed_profile"
    /\ \E i \in 1..Len(call.x) : 2 * call.x[i] > self.max_speed_mps
    /\ create_speed_profile(self, Scaled(2)) = call.ret
    /\ np_trapz(call.ret.speed_mps, call.ret.time_s) = I(self.distance_m)

\* C29: after any sequence of Vehicle.update calls with dt >= 0, the speed is
\* never negative, and position, time and energy_consumption never decrease
\* from one state to the next.
C29_VehicleMonotone ==
    /\ [](RGe(vehicle.speed, I(0)))
    /\ [][/\ RGe(vehicle'.position, vehicle.position)
          /\ RGe(vehicle'.time, vehicle.time)
          /\ RGe(vehicle'.energy_consumption, vehicle.energy_consumption)]_vars

\* the vehicle has moved and braking has brought it to a stop
C29_Witness ==
    /\ RLt(vehicle.acceleration, I(0))
    /\ vehicle.speed = I(0)
    /\ RGt(vehicle.position, I(0))
    /\ RGt(vehicle.energy_consumption, I(0))

\* the advisory was queried by the interface loop in this iteration
Queried == loop.distance_optimal # <<>> /\ call.op = "get_dynamic_speed_recommendation"

\* C30: in the interface loop the remaining distance passed to the advisory
\* is distance_m minus the vehicle's position at every step, and the loop
\* reports the destination reached exactly when the position has reached
\* distance_m, not earlier.
C30_RemainingDistanceToTarget ==
    Queried =>
        /\ call.remain_distance = RSub(I(self.distance_m), vehicle.position)
        /\ loop.reached <=> RGe(vehicle.position, I(self.distance_m))

\* C27: a vehicle that starts at rest at position 0 and obeys the advisory
\* at every step eventually reaches the destination.
\* the distance left to the destination, and its sign (its numerator's)
Remaining == RSub(I(self.distance_m), vehicle.position)

Arrived == Remaining[1] <= 0

C27_DriverArrives == <>Arrived

====
